---- MODULE Spec2Model ----
(***************************************************************************)
(* GhostDB: the statement transformation pipeline.                         *)
(*   src/src/transformer.rs  Transformer::transform, ::parse_values        *)
(*   src/src/main.rs         run_processing                                *)
(*   src/src/config.rs       AppConfig, TableConfig, ColumnStrategy        *)
(*                                                                         *)
(* A Rust &str is modelled as a sequence of characters, each character a   *)
(* one-element TLA+ string.  str::len and the slices &s[a..b] count BYTES  *)
(* of the UTF-8 encoding, so every character carries its encoded width.    *)
(***************************************************************************)
EXTENDS Integers, Sequences, FiniteSets, TLC

\* ---------------------------------------------------------------- bounds
MaxLines == 2      \* lines of the input file
MaxLen == 3        \* characters of a generated value fragment

\* ------------------------------------------------------------ characters
\* A character outside ASCII (two bytes in UTF-8), e.g. a Cyrillic letter.
Wide == "U+0416"

Chars ==
  << "a", "b", "@", "'", ",", " ", "\\", Wide, "1", "2", ".", "(", ")", ";",
     "\"", "-", "*", "x", "c", "o", "m", "u", "n", "k", "w", "M", "i", "S",
     "t", "r", "e", "s", "I", "N", "E", "R", "T", "O", "V", "A", "L", "U",
     "D", "P", "+", "5", "X", "v", "l", "d", "p" >>

Code(c) == CHOOSE i \in 1..Len(Chars) : Chars[i] = c

Width(c) == IF c = Wide THEN 2 ELSE 1

RECURSIVE ByteLen(_)
ByteLen(s) == IF s = <<>> THEN 0 ELSE Width(Head(s)) + ByteLen(Tail(s))

\* byte offset at which character i of s starts (i = Len(s)+1: the end)
Offset(s, i) == ByteLen(SubSeq(s, 1, i - 1))

IsCharBoundary(s, n) == \E i \in 1..(Len(s) + 1) : Offset(s, i) = n

\* &s[a..b]: panics unless a <= b <= len and both are char boundaries
SliceOk(s, a, b) ==
  a <= b /\ b <= ByteLen(s) /\ IsCharBoundary(s, a) /\ IsCharBoundary(s, b)

ByteSlice(s, a, b) ==
  LET i == CHOOSE k \in 1..(Len(s) + 1) : Offset(s, k) = a
      j == CHOOSE k \in 1..(Len(s) + 1) : Offset(s, k) = b
  IN  SubSeq(s, i, j - 1)

starts_with(s, c) == Len(s) > 0 /\ s[1] = c
ends_with(s, c) == Len(s) > 0 /\ s[Len(s)] = c

IsWs(c) == c = " "

\* str::trim
trim(s) ==
  LET keep == {i \in 1..Len(s) : ~IsWs(s[i])}
  IN  IF keep = {} THEN <<>>
      ELSE LET lo == CHOOSE i \in keep : \A k \in keep : i <= k
               hi == CHOOSE i \in keep : \A k \in keep : i >= k
           IN  SubSeq(s, lo, hi)

\* str::trim_matches(c)
trim_matches(s, c) ==
  LET keep == {i \in 1..Len(s) : s[i] # c}
  IN  IF keep = {} THEN <<>>
      ELSE LET lo == CHOOSE i \in keep : \A k \in keep : i <= k
               hi == CHOOSE i \in keep : \A k \in keep : i >= k
           IN  SubSeq(s, lo, hi)

\* str::split(c): always at least one piece
RECURSIVE split(_, _)
split(s, c) ==
  LET hits == {i \in 1..Len(s) : s[i] = c}
  IN  IF hits = {} THEN << s >>
      ELSE LET i == CHOOSE k \in hits : \A h \in hits : k <= h
           IN  << SubSeq(s, 1, i - 1) >> \o split(SubSeq(s, i + 1, Len(s)), c)

\* [T]::join(sep)
RECURSIVE join(_, _)
join(parts, sep) ==
  IF parts = <<>> THEN <<>>
  ELSE IF Len(parts) = 1 THEN parts[1]
  ELSE parts[1] \o sep \o join(Tail(parts), sep)

contains(s, c) == \E i \in 1..Len(s) : s[i] = c

\* ------------------------------------------------------- ColumnStrategy
Keep == [kind |-> "Keep", text |-> <<>>]
FirstName == [kind |-> "FirstName", text |-> <<>>]
LastName == [kind |-> "LastName", text |-> <<>>]
FullName == [kind |-> "FullName", text |-> <<>>]
Email == [kind |-> "Email", text |-> <<>>]
Phone == [kind |-> "Phone", text |-> <<>>]
Mask == [kind |-> "Mask", text |-> <<>>]
Fixed(s) == [kind |-> "Fixed", text |-> s]

\* ------------------------------------------------------------ variables
VARIABLES
  global_seed,        \* Transformer.global_seed
  config,             \* AppConfig.tables: table name -> column -> strategy
  input,              \* lines read from the input file so far
  output,             \* lines written to the BufWriter so far
  processed_lines,    \* run_processing: processed_lines
  anonymized_count,   \* run_processing: anonymized_count
  pc,                 \* position of run_processing
  flushed,            \* writer.flush() has returned
  reported,           \* the final "Done!" counts have been logged
  calls,              \* transform calls of the run: value, strategy, result
  values_str,         \* argument of parse_values
  tokens,             \* result of parse_values
  result,             \* last transform call: value, strategy, result
  pcT                 \* position of the transformer harness

runVars ==
  << config, input, output, processed_lines, anonymized_count, pc, flushed,
     reported, calls >>
funVars == << values_str, tokens, result, pcT >>
vars == << global_seed, config, input, output, processed_lines,
           anonymized_count, pc, flushed, reported, calls, values_str,
           tokens, result, pcT >>

\* ----------------------------------------------------------- Transformer
HashMod == 97

\* DefaultHasher over (global_seed, clean_val): a fixed-key hash, here a
\* polynomial over the character codes; a pure function of its two inputs.
RECURSIVE Mix(_, _)
Mix(h, s) ==
  IF s = <<>> THEN h ELSE Mix((h * 31 + Code(Head(s))) % HashMod, Tail(s))

\* the same hash fed with the position in the file as well
ValueSeedPerLine(seed, clean_val) ==
  Mix((seed + processed_lines) % HashMod, clean_val)

ValueSeed(seed, clean_val) == Mix(seed % HashMod, clean_val)

\* the word lists of the fake crate, cut down to three entries each
FirstNames == << <<"A", "L">>, <<"E", "D">>, <<"I", "D", "A">> >>
LastNames == << <<"O", "'", "M">>, <<"R", "O", "S", "S">>, <<"L", "E", "E">> >>
Domains == << <<"x", ".", "c">>, <<"m", ".", "o">>, <<"u", ".", "k">> >>
Phones == << <<"5", "5", "5">>, <<"+", "1", "5">>, <<"1", "-", "2">> >>

Pick(list, n) == list[(n % Len(list)) + 1]

\* StdRng::seed_from_u64(seed) followed by one draw of the strategy's faker
Fake(kind, seed) ==
  CASE kind = "FirstName" -> Pick(FirstNames, seed)
    [] kind = "LastName" -> Pick(LastNames, seed \div 3)
    [] kind = "FullName" ->
         Pick(FirstNames, seed) \o <<" ">> \o Pick(LastNames, seed \div 3)
    [] kind = "Email" ->
         Pick(FirstNames, seed \div 3) \o <<"@">> \o Pick(Domains, seed)
    [] kind = "Phone" -> Pick(Phones, seed)

Stars3 == <<"*", "*", "*">>
Ok(s) == [panic |-> FALSE, val |-> s]
Panic == [panic |-> TRUE, val |-> <<>>]

\* the Mask arm of transform
MaskValue(clean_val) ==
  IF contains(clean_val, "@")
  THEN LET parts == split(clean_val, "@")
       IN  IF Len(parts) = 2
           THEN LET name == parts[1]
                    domain == parts[2]
                IN  IF ByteLen(name) > 1
                    THEN IF SliceOk(name, 0, 1)
                         THEN Ok(ByteSlice(name, 0, 1) \o Stars3
                                 \o <<"@">> \o domain)
                         ELSE Panic
                    ELSE Ok(Stars3 \o <<"@">> \o domain)
           ELSE Ok(Stars3 \o <<"@", "u", "n", "k", "n", "o", "w", "n", ".",
                               "c", "o", "m">>)
  ELSE IF ByteLen(clean_val) > 1
       THEN IF SliceOk(clean_val, 0, 1)
            THEN Ok(ByteSlice(clean_val, 0, 1) \o Stars3)
            ELSE Panic
       ELSE Ok(<<"*">>)

\* Transformer::transform(&self, value, strategy)
transform(seed, value, strategy) ==
  LET is_quoted == starts_with(value, "'") /\ ends_with(value, "'")
  IN  IF is_quoted /\ ~SliceOk(value, 1, ByteLen(value) - 1)
      THEN Panic
      ELSE
        LET clean_val ==
              IF is_quoted THEN ByteSlice(value, 1, ByteLen(value) - 1)
              ELSE value
            new_val ==
              CASE strategy.kind = "Mask" -> MaskValue(clean_val)
                [] strategy.kind = "Fixed" -> Ok(strategy.text)
                [] OTHER ->
                     Ok(Fake(strategy.kind, ValueSeed(seed, clean_val)))
        IN  IF strategy.kind = "Keep" THEN Ok(value)
            ELSE IF new_val.panic THEN Panic
            ELSE IF is_quoted THEN Ok(<<"'">> \o new_val.val \o <<"'">>)
            ELSE new_val

\* Transformer::parse_values: the loop over values_str.chars()
RECURSIVE ParseLoop(_, _, _, _, _)
ParseLoop(s, res, current, in_quotes, escape) ==
  IF s = <<>> THEN [res |-> res, current |-> current]
  ELSE LET c == Head(s)
           rest == Tail(s)
       IN  IF escape
           THEN ParseLoop(rest, res, Append(current, c), in_quotes, FALSE)
           ELSE CASE c = "'" ->
                       ParseLoop(rest, res, Append(current, c), ~in_quotes,
                                 FALSE)
                  [] c = "\\" ->
                       ParseLoop(rest, res, Append(current, c), in_quotes,
                                 TRUE)
                  [] c = "," /\ ~in_quotes ->
                       ParseLoop(rest, Append(res, trim(current)), <<>>,
                                 in_quotes, FALSE)
                  [] OTHER ->
                       ParseLoop(rest, res, Append(current, c), in_quotes,
                                 FALSE)

\* the final push guarded by the text after trimming instead of before
FinalPushTrimmed(st) ==
  IF trim(st.current) # <<>> THEN Append(st.res, trim(st.current))
  ELSE st.res

\* the final push: if !current.is_empty() { result.push(current.trim()) }
FinalPush(st) ==
  IF st.current # <<>> THEN Append(st.res, trim(st.current)) ELSE st.res

parse_values(s) == FinalPush(ParseLoop(s, <<>>, <<>>, FALSE, FALSE))

\* ------------------------------------------------- Statement Matcher
\* (?i)^INSERT\s+INTO\s+(\S+)\s*\((.*?)\)\s*VALUES\s*\((.*)\);
INSERT_ == <<"I", "N", "S", "E", "R", "T">>
INTO_ == <<"I", "N", "T", "O">>
VALUES_ == <<"V", "A", "L", "U", "E", "S">>

\* (?i): letters compare by their lower-case form
Lower(c) ==
  CASE c = "I" -> "i" [] c = "N" -> "n" [] c = "S" -> "s" [] c = "E" -> "e"
    [] c = "R" -> "r" [] c = "T" -> "t" [] c = "O" -> "o" [] c = "V" -> "v"
    [] c = "A" -> "a" [] c = "L" -> "l" [] c = "U" -> "u" [] c = "D" -> "d"
    [] c = "P" -> "p" [] c = "M" -> "m" [] c = "X" -> "x" [] OTHER -> c

LitAt(s, i, lit) ==
  /\ i + Len(lit) - 1 <= Len(s)
  /\ \A k \in 1..Len(lit) : Lower(s[i + k - 1]) = Lower(lit[k])

At(s, i, c) == i >= 1 /\ i <= Len(s) /\ s[i] = c

\* end of a greedy \s* starting at i: the first position that is not blank
SkipWs(s, i) ==
  CHOOSE j \in i..(Len(s) + 1) :
    /\ j = Len(s) + 1 \/ ~IsWs(s[j])
    /\ \A k \in i..(j - 1) : IsWs(s[k])

\* end of a greedy \S* starting at i: the first position that is blank
SkipNonWs(s, i) ==
  CHOOSE j \in i..(Len(s) + 1) :
    /\ j = Len(s) + 1 \/ IsWs(s[j])
    /\ \A k \in i..(j - 1) : ~IsWs(s[k])

\* ^INSERT\s+INTO\s+ : where group 1 starts, 0 when the prefix fails
TableStart(s) ==
  IF ~LitAt(s, 1, INSERT_) THEN 0
  ELSE LET a == SkipWs(s, 7)
       IN  IF a = 7 \/ ~LitAt(s, a, INTO_) THEN 0
           ELSE LET b == SkipWs(s, a + 4)
                IN  IF b = a + 4 \/ b > Len(s) THEN 0 ELSE b

\* \s*\( after group 1 ending at q: where group 2 starts, 0 on failure
ColsStart(s, q) ==
  LET j == SkipWs(s, q + 1)
  IN  IF At(s, j, "(") THEN j + 1 ELSE 0

\* \)\s*VALUES\s*\( after group 2 ending at q: where group 3 starts, or 0
ValsStart(s, q) ==
  IF ~At(s, q + 1, ")") THEN 0
  ELSE LET j == SkipWs(s, q + 2)
       IN  IF ~LitAt(s, j, VALUES_) THEN 0
           ELSE LET k == SkipWs(s, j + 6)
                IN  IF At(s, k, "(") THEN k + 1 ELSE 0

\* \); after group 3 ending at q; the pattern has no $ after it
Closes(s, q) == At(s, q + 1, ")") /\ At(s, q + 2, ";")

SetMax(S) == CHOOSE x \in S : \A y \in S : x >= y
SetMin(S) == CHOOSE x \in S : \A y \in S : x <= y

NoMatch == [matched |-> FALSE, table |-> <<>>, cols |-> <<>>, vals |-> <<>>]

\* insert_regex.captures(&line): leftmost-first match, (\S+) and (.*) greedy,
\* (.*?) lazy
captures(s) ==
  LET p1 == TableStart(s)
  IN  IF p1 = 0 THEN NoMatch
      ELSE
        LET r1 == SkipNonWs(s, p1) - 1
            Q3(p3) == {q \in (p3 - 1)..Len(s) : Closes(s, q)}
            Q2(p2) == {q \in (p2 - 1)..Len(s) :
                         ValsStart(s, q) # 0 /\ Q3(ValsStart(s, q)) # {}}
            Q1 == {q \in p1..r1 :
                     ColsStart(s, q) # 0 /\ Q2(ColsStart(s, q)) # {}}
        IN  IF Q1 = {} THEN NoMatch
            ELSE LET q1 == SetMax(Q1)
                     p2 == ColsStart(s, q1)
                     q2 == SetMin(Q2(p2))
                     p3 == ValsStart(s, q2)
                     q3 == SetMax(Q3(p3))
                 IN  [matched |-> TRUE,
                      table |-> SubSeq(s, p1, q1),
                      cols |-> SubSeq(s, p2, q2),
                      vals |-> SubSeq(s, p3, q3)]

\* --------------------------------------------------------- Strategy Table
Some(x) == << x >>
None == << >>

\* the lookup with the unqualified name tried first
TableKeySuffixFirst(cfg, table_full_name) ==
  LET name == split(table_full_name, ".")[Len(split(table_full_name, "."))]
  IN  IF name \in DOMAIN cfg THEN Some(name)
      ELSE IF table_full_name \in DOMAIN cfg THEN Some(table_full_name)
      ELSE None

\* let table_key = if config.tables.contains_key(table_full_name) {..} else {..}
TableKey(cfg, table_full_name) ==
  IF table_full_name \in DOMAIN cfg THEN Some(table_full_name)
  ELSE LET parts == split(table_full_name, ".")
           name == parts[Len(parts)]
       IN  IF name \in DOMAIN cfg THEN Some(name) ELSE None

\* table_config.columns.get(col_name).unwrap_or(&ColumnStrategy::Keep)
StrategyOf(table_config, col_name) ==
  IF col_name \in DOMAIN table_config THEN table_config[col_name] ELSE Keep

\* cols_part.split(',').map(|s| s.trim().trim_matches('"')).collect()
Columns(cols_part) ==
  LET parts == split(cols_part, ",")
  IN  [i \in 1..Len(parts) |-> trim_matches(trim(parts[i]), "\"")]

\* ------------------------------------------------- Transformation Pipeline
\* the transform calls of the loop over the columns, in order, up to and
\* including the first one that panics
RECURSIVE TransformAll(_, _, _, _, _)
TransformAll(seed, table_config, columns, values, i) ==
  IF i > Len(columns) THEN <<>>
  ELSE LET strategy == StrategyOf(table_config, columns[i])
           out == transform(seed, values[i], strategy)
           call == [value |-> values[i], strategy |-> strategy, out |-> out]
       IN  IF out.panic THEN << call >>
           ELSE << call >>
                  \o TransformAll(seed, table_config, columns, values, i + 1)

\* format!("INSERT INTO {} ({}) VALUES ({});", table_full_name, cols_part, ..)
Reassemble(table_full_name, cols_part, new_values) ==
  <<"I", "N", "S", "E", "R", "T", " ", "I", "N", "T", "O", " ">>
    \o table_full_name \o <<" ", "(">> \o cols_part
    \o <<")", " ", "V", "A", "L", "U", "E", "S", " ", "(">>
    \o join(new_values, <<",", " ">>) \o <<")", ";">>

\* the comparison accepting a row that has values to spare
AlignedAtLeast(columns, values) == Len(columns) <= Len(values)

\* if columns.len() != values.len() { .. continue; }
Aligned(columns, values) == Len(columns) = Len(values)

\* the line written without its surrounding blanks
VerbatimTrimmed(line) ==
  [panic |-> FALSE, text |-> trim(line), rewritten |-> FALSE, calls |-> <<>>]

\* writeln!(writer, "{}", line)
Verbatim(line) ==
  [panic |-> FALSE, text |-> line, rewritten |-> FALSE, calls |-> <<>>]

\* the columns are transformed: the rewritten line is written, or, when a
\* transform call panics, the run unwinds without writing
Emit(caps, done) ==
  [panic |-> \E i \in 1..Len(done) : done[i].out.panic,
   text |-> Reassemble(caps.table, caps.cols,
                       [i \in 1..Len(done) |-> done[i].out.val]),
   rewritten |-> ~(\E i \in 1..Len(done) : done[i].out.panic),
   calls |-> done]

\* if let Some(table_config) = config.tables.get(key) { .. }
HandleTracked(seed, line, caps, table_config, columns, values) ==
  IF ~Aligned(columns, values) THEN Verbatim(line)
  ELSE Emit(caps, TransformAll(seed, table_config, columns, values, 1))

\* if let Some(key) = table_key { .. } else { writeln!(writer, "{}", line) }
HandleMatched(cfg, seed, line, caps, table_key) ==
  IF table_key = None THEN Verbatim(line)
  ELSE HandleTracked(seed, line, caps, cfg[table_key[1]],
                     Columns(caps.cols), parse_values(caps.vals))

\* if let Some(caps) = insert_regex.captures(&line) { .. } else { .. }
HandleCaptures(cfg, seed, line, caps) ==
  IF ~caps.matched THEN Verbatim(line)
  ELSE HandleMatched(cfg, seed, line, caps, TableKey(cfg, caps.table))

\* the body of the loop of run_processing for one line
HandleLine(cfg, seed, line) ==
  HandleCaptures(cfg, seed, line, captures(line))

\* ------------------------------------------- transformer harness (SpecT)
Seeds == {42, 7}

ValueAlphabet == {"a", "@", "'", ",", " ", "\\", Wide}

RECURSIVE StringsUpTo(_)
StringsUpTo(n) ==
  IF n = 0 THEN { <<>> }
  ELSE LET shorter == StringsUpTo(n - 1)
       IN  shorter \cup
             {Append(s, c) : s \in {t \in shorter : Len(t) = n - 1},
                             c \in ValueAlphabet}

\* the two Mask examples of the documentation
ExampleValues ==
  { <<"'", "b", "o", "b", "@", "c", "o", ".", "c", "o", "m", "'">>,
    <<"'", "M", "a", "i", "n", " ", "S", "t", "r", "e", "e", "t", "'">> }

ValueStrings == StringsUpTo(MaxLen) \cup ExampleValues

Strategies ==
  { Keep, FirstName, LastName, FullName, Email, Phone, Mask,
    Fixed(<<"X">>), Fixed(<<"'", "X", "'">>), Fixed(<<>>) }

NoResult == [value |-> <<>>, strategy |-> Keep, out |-> Ok(<<>>)]

EmptyConfig == << >>

RunIdle ==
  /\ config = EmptyConfig
  /\ input = <<>>
  /\ output = <<>>
  /\ processed_lines = 0
  /\ anonymized_count = 0
  /\ pc = "idle"
  /\ flushed = FALSE
  /\ reported = FALSE
  /\ calls = {}

InitT ==
  /\ global_seed \in Seeds
  /\ values_str \in ValueStrings
  /\ tokens = <<>>
  /\ result = NoResult
  /\ pcT = "start"
  /\ RunIdle

\* let values = Transformer::parse_values(vals_part)
ParseValues ==
  /\ pcT = "start"
  /\ tokens' = parse_values(values_str)
  /\ pcT' = "parsed"
  /\ UNCHANGED << global_seed, values_str, result >>
  /\ UNCHANGED runVars

\* let new_val = transformer.transform(&values[i], strategy)
TransformToken(i, strategy) ==
  /\ pcT = "parsed"
  /\ i \in 1..Len(tokens)
  /\ result' = [value |-> tokens[i], strategy |-> strategy,
                out |-> transform(global_seed, tokens[i], strategy)]
  /\ pcT' = "transformed"
  /\ UNCHANGED << global_seed, values_str, tokens >>
  /\ UNCHANGED runVars

NextT ==
  \/ ParseValues
  \/ \E i \in 1..(MaxLen + 1), strategy \in Strategies :
       TransformToken(i, strategy)

SpecT == InitT /\ [][NextT]_vars

\* --------------------------------------------------- run_processing (Spec)
T_t == <<"t">>
T_st == <<"s", ".", "t">>
T_su == <<"s", ".", "u">>
Col_a == <<"a">>
Col_b == <<"b">>

\* both the qualified and the unqualified name are keys
ConfigBoth ==
  (T_t :> ((Col_a :> Mask) @@ (Col_b :> Fixed(<<"X">>))))
    @@ (T_st :> ((Col_a :> Email) @@ (Col_b :> Email)))
\* only the unqualified name is a key
ConfigShort == (T_t :> ((Col_a :> Email) @@ (Col_b :> Email)))
\* only the qualified name is a key
ConfigQualified == (T_st :> (Col_a :> FirstName))

Configs == {ConfigBoth, ConfigShort, ConfigQualified}

V_one == <<"1">>
V_mail == <<"'", "a", "@", "b", "'">>
V_quote == <<"'">>
V_two == <<"1", ",", " ", "'", "a", "@", "b", "'">>
V_same == <<"'", "a", "@", "b", "'", ",", "'", "a", "@", "b", "'">>
V_wide == <<"'", Wide, "a", "'">>

C_one == <<"a">>
C_two == <<"a", ",", " ", "b">>

InsertLine(kw, into, table, sep, cols, values_kw, vals, trailer) ==
  kw \o <<" ">> \o into \o <<" ">> \o table \o sep \o <<"(">> \o cols
     \o <<")", " ">> \o values_kw \o <<" ", "(">> \o vals \o <<")", ";">>
     \o trailer

Plain(table, cols, vals) ==
  InsertLine(INSERT_, INTO_, table, <<" ">>, cols, VALUES_, vals, <<>>)

StatementLines ==
  {Plain(T_t, C_one, vals) :
     vals \in {V_one, V_mail, V_quote, V_wide, V_two}}
  \cup {Plain(T_st, C_one, vals) : vals \in {V_one, V_mail}}
  \cup {Plain(table, C_two, vals) :
          table \in {T_t, T_st}, vals \in {V_two, V_same}}
  \cup {Plain(T_su, C_one, V_mail)}

\* lower-case keywords, no blank between the table name and its columns
LowerLine ==
  InsertLine(<<"i", "n", "s", "e", "r", "t">>, <<"i", "n", "t", "o">>, T_t,
             <<>>, <<"\"", "a", "\"">>, <<"v", "a", "l", "u", "e", "s">>,
             V_mail, <<>>)

Comment == <<" ", "-", "-", "x">>

\* a statement followed by more text on the same line
TrailingLines ==
  {InsertLine(INSERT_, INTO_, table, <<" ">>, C_one, VALUES_, V_mail, Comment) :
     table \in {T_t, T_su}}
  \cup {Plain(T_t, C_one, V_mail) \o <<" ">> \o Plain(T_t, C_one, V_one)}

OtherLines ==
  { <<>>,
    <<"-", "-", " ", "a">>,
    <<"D", "R", "O", "P", " ", "t", ";">>,
    <<" ">> \o Plain(T_t, C_one, V_one),
    SubSeq(Plain(T_t, C_one, V_one), 1, Len(Plain(T_t, C_one, V_one)) - 1) }

Lines == StatementLines \cup {LowerLine} \cup TrailingLines \cup OtherLines

FunIdle ==
  /\ values_str = <<>>
  /\ tokens = <<>>
  /\ result = NoResult
  /\ pcT = "idle"

Init ==
  /\ global_seed \in Seeds
  /\ config \in Configs
  /\ input = <<>>
  /\ output = <<>>
  /\ processed_lines = 0
  /\ anonymized_count = 0
  /\ pc = "reading"
  /\ flushed = FALSE
  /\ reported = FALSE
  /\ calls = {}
  /\ FunIdle

\* the effect of one iteration on the state of the run
Iteration(line, h) ==
  /\ input' = Append(input, line)
  /\ processed_lines' = processed_lines + 1
  /\ calls' = calls \cup {h.calls[i] : i \in 1..Len(h.calls)}
  /\ IF h.panic
     THEN /\ pc' = "panicked"
          /\ UNCHANGED << output, anonymized_count >>
     ELSE /\ pc' = "reading"
          /\ output' = Append(output, h.text)
          /\ anonymized_count' =
               anonymized_count + (IF h.rewritten THEN 1 ELSE 0)

\* one iteration of `for line_result in reader.lines()` with Ok(line)
ReadLine(line) ==
  /\ pc = "reading"
  /\ Len(input) < MaxLines
  /\ Iteration(line, HandleLine(config, global_seed, line))
  /\ UNCHANGED << global_seed, config, flushed, reported >>
  /\ UNCHANGED funVars

\* a read, write or flush fails: `?` returns the error
IoError ==
  /\ pc = "reading"
  /\ pc' = "io_error"
  /\ UNCHANGED << global_seed, config, input, output, processed_lines,
                  anonymized_count, flushed, reported, calls >>
  /\ UNCHANGED funVars

\* reader.lines() is exhausted: writer.flush()
Flush ==
  /\ pc = "reading"
  /\ flushed' = TRUE
  /\ pc' = "flushed"
  /\ UNCHANGED << global_seed, config, input, output, processed_lines,
                  anonymized_count, reported, calls >>
  /\ UNCHANGED funVars

\* info!("Done! Processed {} lines. Anonymized {} statements.", ..); Ok(())
Report ==
  /\ pc = "flushed"
  /\ reported' = TRUE
  /\ pc' = "done"
  /\ UNCHANGED << global_seed, config, input, output, processed_lines,
                  anonymized_count, flushed, calls >>
  /\ UNCHANGED funVars

Next ==
  \/ \E line \in Lines : ReadLine(line)
  \/ IoError
  \/ Flush
  \/ Report

Spec == Init /\ [][Next]_vars

\* ================================================================ claims
\* the step handled one more input line
Handled == Len(input') = Len(input) + 1
\* the line handled by the step
Line == input'[Len(input')]
\* the step wrote the handled line unchanged and counted no statement
WroteVerbatim ==
  /\ output' = Append(output, Line)
  /\ anonymized_count' = anonymized_count

\* the text after the last '.' of a table name (the whole name without '.')
LastSegment(name) ==
  LET dots == {i \in 1..Len(name) : name[i] = "."}
  IN  IF dots = {} THEN name
      ELSE SubSeq(name, SetMax(dots) + 1, Len(name))

Tracked(cfg, table) ==
  table \in DOMAIN cfg \/ LastSegment(table) \in DOMAIN cfg

Wrapped(s) == starts_with(s, "'") /\ ends_with(s, "'")

\* ---------------------------------------------------------------- C1
\* C1: a line that the statement pattern does not match (comment, DDL,
\* blank line, ...) is written unchanged, and the statements-anonymized
\* counter keeps its value, whatever the configuration and the seed.
C1_UnmatchedPassthrough ==
  [][(Handled /\ ~captures(Line).matched)
       => (WroteVerbatim /\ pc' = "reading")]_vars

\* an unmatched line with leading blank has been copied, under any config
C1_Witness ==
  /\ Len(output) = 2
  /\ input[1] = <<"-", "-", " ", "a">>
  /\ input[2] = <<" ">> \o Plain(T_t, C_one, V_one)
  /\ output = input
  /\ anonymized_count = 0

\* ---------------------------------------------------------------- C2
\* a matched statement on a tracked table whose columns and values differ
\* in number
TrackedMismatch(caps) ==
  /\ caps.matched
  /\ Tracked(config, caps.table)
  /\ Len(split(caps.cols, ",")) # Len(parse_values(caps.vals))

\* C2: a matched line on a tracked table whose number of column names
\* differs from the number of value tokens is written unchanged, the
\* counter keeps its value, the run does not stop and reads on.
C2_MismatchPassthrough ==
  [][(Handled /\ TrackedMismatch(captures(Line)))
       => (WroteVerbatim /\ pc' = "reading")]_vars

\* a mismatching line (one column, two values) on a tracked table was
\* copied and the next line was rewritten after it
C2_Witness ==
  /\ config = ConfigShort
  /\ Len(output) = 2
  /\ input[1] = Plain(T_t, C_one, V_two)
  /\ output[1] = input[1]
  /\ input[2] = Plain(T_t, C_one, V_mail)
  /\ output[2] # input[2]
  /\ anonymized_count = 1

\* ---------------------------------------------------------------- C3
\* the line the pipeline has to emit when the statement is rewritten with
\* the column strategies of table_config
Rewritten(table_config, caps, seed) ==
  LET columns == Columns(caps.cols)
      values == parse_values(caps.vals)
  IN  Reassemble(caps.table, caps.cols,
        [i \in 1..Len(columns) |->
           transform(seed, values[i],
                     StrategyOf(table_config, columns[i])).val])

\* the resolution of C3 for a matched statement with table name full
Resolved(caps, full, short) ==
  /\ (~(full \in DOMAIN config) /\ ~(short \in DOMAIN config))
       => WroteVerbatim
  /\ (full \in DOMAIN config /\ anonymized_count' = anonymized_count + 1)
       => output' = Append(output,
                           Rewritten(config[full], caps, global_seed))
  /\ (~(full \in DOMAIN config) /\ short \in DOMAIN config
        /\ anonymized_count' = anonymized_count + 1)
       => output' = Append(output,
                           Rewritten(config[short], caps, global_seed))

ResolvedFor(caps) ==
  caps.matched => Resolved(caps, caps.table, LastSegment(caps.table))

\* C3: the strategies come from the entry of the full table name when it
\* is a key (even if the last segment is a key too), otherwise from the
\* entry of the text after the last '.'; when neither is a key the line
\* is written unchanged and the counter keeps its value.
C3_TwoTierResolution == [][Handled => ResolvedFor(captures(Line))]_vars

\* with both "s.t" and "t" configured the qualified entry (Email) was used
\* for a statement on s.t; a statement on s.u was copied
C3_Witness ==
  /\ config = ConfigBoth
  /\ Len(output) = 2
  /\ input[1] = Plain(T_st, C_one, V_mail)
  /\ output[1] = Rewritten(ConfigBoth[T_st], captures(input[1]), global_seed)
  /\ output[1] # Rewritten(ConfigBoth[T_t], captures(input[1]), global_seed)
  /\ input[2] = Plain(T_su, C_one, V_mail)
  /\ output[2] = input[2]
  /\ anonymized_count = 1

\* ---------------------------------------------------------------- C4
\* C4: transform returns a string for every token parse_values produces
\* and every strategy; it never aborts.
C4_TransformNeverAborts == pcT = "transformed" => ~result.out.panic

\* ---------------------------------------------------------------- C5
\* C5: a token wrapped in single quotes gives, under every strategy but
\* Keep, an output wrapped in single quotes; a token not wrapped in single
\* quotes gives, under every strategy, an output not wrapped in them.
C5_QuotePreservation ==
  pcT = "transformed" =>
    /\ (Wrapped(result.value) /\ result.strategy.kind # "Keep")
         => (~result.out.panic /\ Wrapped(result.out.val))
    /\ ~Wrapped(result.value)
         => (~result.out.panic /\ ~Wrapped(result.out.val))

Content(value) ==
  IF Wrapped(value) /\ Len(value) >= 2 THEN SubSeq(value, 2, Len(value) - 1)
  ELSE IF Wrapped(value) THEN <<>>
  ELSE value

\* the masked form of content c, character by character
Masked(c) ==
  LET ats == {i \in 1..Len(c) : c[i] = "@"}
  IN  IF Cardinality(ats) = 1
      THEN LET at == CHOOSE i \in ats : TRUE
               local == SubSeq(c, 1, at - 1)
               domain == SubSeq(c, at + 1, Len(c))
           IN  (IF Len(local) > 1 THEN << local[1] >> \o Stars3 ELSE Stars3)
                 \o <<"@">> \o domain
      ELSE IF Cardinality(ats) > 1
      THEN Stars3 \o <<"@", "u", "n", "k", "n", "o", "w", "n", ".", "c", "o",
                       "m">>
      ELSE IF Len(c) > 1 THEN << c[1] >> \o Stars3
      ELSE <<"*">>

\* C7: under Mask the result is the masked form of the token's content
\* (first character of the local part or of the text, then ***; the domain
\* kept; ***@unknown.com for several '@'; * for at most one character),
\* wrapped in single quotes iff the token was.
C7_MaskResult ==
  (pcT = "transformed" /\ result.strategy.kind = "Mask") =>
    /\ ~result.out.panic
    /\ result.out.val =
         (IF Wrapped(result.value)
          THEN <<"'">> \o Masked(Content(result.value)) \o <<"'">>
          ELSE Masked(Content(result.value)))

\* ---------------------------------------------------------------- C8
\* position i of s is the character consumed by a preceding backslash
RECURSIVE Escaped(_, _)
Escaped(s, i) == i > 1 /\ s[i - 1] = "\\" /\ ~Escaped(s, i - 1)

\* position i of s lies inside an open single-quoted string
InsideString(s, i) ==
  Cardinality({k \in 1..(i - 1) : s[k] = "'" /\ ~Escaped(s, k)}) % 2 = 1

Separators(s) ==
  {i \in 1..Len(s) : s[i] = "," /\ ~Escaped(s, i) /\ ~InsideString(s, i)}

\* the text in front of separator i, back to the separator before it
PieceBefore(s, i) ==
  LET before == {k \in Separators(s) : k < i}
      from == IF before = {} THEN 1 ELSE SetMax(before) + 1
  IN  SubSeq(s, from, i - 1)

\* the text after the last separator
TailText(s) ==
  IF Separators(s) = {} THEN s
  ELSE SubSeq(s, SetMax(Separators(s)) + 1, Len(s))

\* the separators of s in increasing order
RECURSIVE Ascending(_)
Ascending(S) ==
  IF S = {} THEN <<>> ELSE << SetMin(S) >> \o Ascending(S \ {SetMin(S)})

SplitTokens(s) ==
  LET seps == Ascending(Separators(s))
  IN  [n \in 1..Len(seps) |-> trim(PieceBefore(s, seps[n]))]

\* C8 as stated: the tokens are the trimmed pieces between the separating
\* commas, and the text after the last separator is emitted iff it is
\* non-empty AFTER trimming.
C8_SplitterAsStated ==
  pcT # "start" =>
    tokens = SplitTokens(values_str)
               \o (IF trim(TailText(values_str)) # <<>>
                   THEN << trim(TailText(values_str)) >> ELSE <<>>)

\* C8 (amended): the tokens are the trimmed pieces between the separating
\* commas, and the text after the last separator is emitted, trimmed, iff
\* it is non-empty BEFORE trimming (a blank tail gives an empty token).
C8_Splitter ==
  pcT # "start" =>
    tokens = SplitTokens(values_str)
               \o (IF TailText(values_str) # <<>>
                   THEN << trim(TailText(values_str)) >> ELSE <<>>)

\* a blank tail after the last separator was emitted as an empty token
C8_Witness ==
  /\ pcT = "parsed"
  /\ values_str = <<"a", ",", " ">>
  /\ tokens = << <<"a">>, <<>> >>

\* ---------------------------------------------------------------- C9
\* the line is a matching statement followed by further text
StatementThenText(line) ==
  \E n \in 1..(Len(line) - 1) :
    line[n] = ";" /\ captures(SubSeq(line, 1, n)).matched

\* C9: a line that has a statement followed by further text after its
\* `);` is not matched and is written unchanged, so no text is dropped.
C9_TrailingTextPassthrough ==
  [][(Handled /\ StatementThenText(Line)) => WroteVerbatim]_vars

\* ---------------------------------------------------------------- C10
\* C10: without an I/O error there is one output line per handled input
\* line, lines-processed is the number of lines handled, statements-
\* anonymized is the number of rewritten lines, and the counts are
\* reported only after the flush.
C10_OneOutputPerInput ==
  pc # "io_error" =>
    /\ Len(output) = Len(input)
    /\ processed_lines = Len(input)
    /\ anonymized_count <= processed_lines
    /\ anonymized_count
         = Cardinality({k \in 1..Len(output) : output[k] # input[k]})
    /\ reported => flushed

====
